---- MODULE Spec2Model ----
(***************************************************************************)
(* Deployment orchestrator of infra-orchestrator: DeployService (deploy,   *)
(* findAvailablePort, listDeployments, removeDeployment) and NginxService  *)
(* (createProxyConfig, removeProxyConfig, listProxyConfigs) running        *)
(* against a container runtime and a config directory.                     *)
(*                                                                         *)
(* Every `await` of the source is one step: the runtime call takes effect  *)
(* and the synchronous code up to the next `await` runs with it.  Calls    *)
(* of different requests interleave between steps.                         *)
(***************************************************************************)
EXTENDS Integers, Sequences, FiniteSets, TLC

VARIABLES
    containers,   \* the runtime's containers: a set of records
    nextId,       \* the runtime's next container id
    nginxDir,     \* TRUE when the config directory (nginxPath) exists
    files,        \* the config directory: file name -> content
    pc,           \* per request: the await it is suspended at
    op,           \* per request: the operation it runs
    subdomain,    \* per request: the subdomain argument
    internalPort, \* per request: deploy's internalPort / createProxyConfig's port
    fraction,     \* per request: tenths by which the port argument exceeds that integer
    range,        \* per request: findAvailablePort's <<min, max>>
    hostPort,     \* per request: deploy's hostPort (0 before it is assigned)
    containerId,  \* per request: id of the container deploy created (0 before)
    ret,          \* per request: what the call returned or threw
    log,          \* per request: the external calls it made, with their outcome
    lastCall,     \* per subdomain: what the last Deploy/Remove response told
    callsMade,    \* number of requests issued so far
    faults,       \* number of external failures injected so far
    attempt       \* per request: findAvailablePort's loop counter

vars == <<containers, nextId, nginxDir, files, pc, op, subdomain, internalPort,
          fraction, range, hostPort, containerId, ret, log, lastCall, callsMade, faults,
          attempt>>

runtimeVars == <<containers, nextId>>
fsVars == <<nginxDir, files>>
\* the arguments of a request, and the loop counter that only the allocator's
\* own loop changes
argVars == <<op, subdomain, internalPort, fraction, range, attempt>>

-----------------------------------------------------------------------------
(* Bounds of the model *)

\* concurrent requests
NumProcs == 2
\* requests issued in one behaviour
MaxCalls == 3
\* external calls that fail for a reason other than the runtime's state
MaxFaults == 1
\* Math.random() takes the values k / RandomSteps, k = 0 .. RandomSteps - 1
RandomSteps == 2
\* findAvailablePort called on its own: ranges [3003, 3003 + w], w < AllocWidths
AllocWidths == 3

Procs == 1..NumProcs

-----------------------------------------------------------------------------
(* Program constants *)

\* deploy.service.ts:149  findAvailablePort(3003, 4000)
DeployMinPort == 3003
DeployMaxPort == 4000
\* deploy.service.ts:223
maxAttempts == 100
\* nginx.service.ts:38
MinValidPort == 1
MaxValidPort == 65535

-----------------------------------------------------------------------------
(* Strings are sequences of one-character strings, so that the pattern     *)
(* test, the name building and the parsing are computed, not assumed.      *)

LowerCase == {"a","b","c","d","e","f","g","h","i","j","k","l","m",
              "n","o","p","q","r","s","t","u","v","w","x","y","z"}
Digit == {"0","1","2","3","4","5","6","7","8","9"}

Cliente1 == <<"c","l","i","e","n","t","e","1">>
Ghost == <<"g","h","o","s","t">>
HasUpper == <<"H","a","s","_","U","p","p","e","r">>

Subdomains == {Cliente1, Ghost, HasUpper}
InternalPorts == {3000}
ImageName == "acme/app:latest"

\* /^[a-z0-9-]+$/.test(subdomain), with the !subdomain test before it
MatchesPattern(s) ==
    /\ Len(s) > 0
    /\ \A i \in 1..Len(s) : s[i] \in LowerCase \cup Digit \cup {"-"}

\* mutant: one container name for every subdomain
Mutant_SharedContainerName(s) == <<"container-", "app">>

\* `container-${subdomain}`
existingContainerName(s) == <<"container-">> \o s

\* `${port}`: decimal digits of a non-negative integer
RECURSIVE DigitsOf(_)
DigitsOf(n) ==
    LET d == <<"0","1","2","3","4","5","6","7","8","9">>[(n % 10) + 1]
    IN IF n < 10 THEN <<d>> ELSE Append(DigitsOf(n \div 10), d)

DigitValue(c) == CHOOSE v \in 0..9 : DigitsOf(v) = <<c>>

\* parseInt(digits, 10)
RECURSIVE ParseInt(_)
ParseInt(ds) ==
    IF Len(ds) = 0 THEN 0
    ELSE 10 * ParseInt(SubSeq(ds, 1, Len(ds) - 1)) + DigitValue(ds[Len(ds)])

ProxyPassToken == "proxy_pass http://localhost:"

\* nginx-template.ts: the rendered virtual-host block
getNginxConfig(s, port) ==
    <<"server {", "listen 80;", "server_name ">> \o s \o <<".boogiepop.cloud;">>
    \o <<"location / {", ProxyPassToken>> \o DigitsOf(port) \o <<";">>
    \o <<"proxy_http_version 1.1;",
         "proxy_set_header Upgrade $http_upgrade;",
         "proxy_set_header Connection 'upgrade';",
         "proxy_set_header Host $host;",
         "proxy_cache_bypass $http_upgrade;", "}", "}">>

\* `${subdomain}.conf` under nginxPath
ConfFileName(s) == s \o <<".conf">>

\* content.match(/proxy_pass http:\/\/localhost:(\d+)/) then parseInt, or null (0)
RECURSIVE DigitRun(_, _)
DigitRun(content, i) ==
    IF i <= Len(content) /\ content[i] \in Digit
    THEN <<content[i]>> \o DigitRun(content, i + 1)
    ELSE <<>>

\* mutant: the port is read from the first digit only
Mutant_ParseFirstDigit(content) ==
    LET hits == {i \in 1..Len(content) :
                    /\ content[i] = ProxyPassToken
                    /\ i < Len(content)
                    /\ content[i + 1] \in Digit}
    IN IF hits = {} THEN 0
       ELSE DigitValue(content[(CHOOSE i \in hits : \A j \in hits : i <= j) + 1])

ParsePort(content) ==
    LET hits == {i \in 1..Len(content) :
                    /\ content[i] = ProxyPassToken
                    /\ i < Len(content)
                    /\ content[i + 1] \in Digit}
    IN IF hits = {} THEN 0
       ELSE LET first == CHOOSE i \in hits : \A j \in hits : i <= j
            IN ParseInt(DigitRun(content, first + 1))

-----------------------------------------------------------------------------
(* The container runtime as the orchestrator sees it                       *)

Named(name) == {c \in containers : c.Name = name}
WithId(id) == {c \in containers : c.Id = id}

\* status of existingContainer.inspect() / container.inspect()
InspectCode(name) == IF Named(name) = {} THEN "404" ELSE "ok"

\* status of .stop(): 204, 304 (already stopped, an error for the client), 404
StopCode(name) ==
    IF Named(name) = {} THEN "404"
    ELSE IF \E c \in Named(name) : c.Running THEN "ok" ELSE "304"

\* status of .remove() without force: 204, 409 (running), 404
RemoveCode(name) ==
    IF Named(name) = {} THEN "404"
    ELSE IF \E c \in Named(name) : c.Running THEN "409" ELSE "ok"

\* status of docker.createContainer: 201, 409 (name in use)
CreateCode(name) == IF Named(name) = {} THEN "ok" ELSE "409"

\* status of container.start() on the created id: 204, 304, 404
StartCode(id) ==
    IF WithId(id) = {} THEN "404"
    ELSE IF \E c \in WithId(id) : c.Running THEN "304" ELSE "ok"

\* mutant: the binding maps the internal port to itself
Mutant_BindsInternalPort(image, name, intPort, hPort) ==
    [Image |-> image, Name |-> name,
     PortBindings |-> [PrivatePort |-> intPort, HostPort |-> intPort]]

\* the options object handed to docker.createContainer
CreateOptions(image, name, intPort, hPort) ==
    [Image |-> image, Name |-> name,
     PortBindings |-> [PrivatePort |-> intPort, HostPort |-> hPort]]

\* docker.listContainers({ all: true }): one ContainerInfo per container
ListContainers ==
    {[Id |-> c.Id,
      Names |-> << <<"/">> \o c.Name >>,
      Image |-> c.Image,
      Running |-> c.Running,
      Ports |-> << [PrivatePort |-> c.PortBindings.PrivatePort,
                    PublicPort |-> c.PortBindings.HostPort] >>] : c \in containers}

\* a port the image exposes and the deploy does not publish is reported as an
\* entry without PublicPort (0 here, falsy as undefined is)
UnpublishedEntry == [PrivatePort |-> 8080, PublicPort |-> 0]

\* the Ports array the runtime may report for container c: the published
\* binding alone, or with an unpublished entry after it or before it; the
\* runtime promises no order
PortReports(c) ==
    LET binding == [PrivatePort |-> c.PortBindings.PrivatePort,
                    PublicPort |-> c.PortBindings.HostPort]
    IN {<<binding>>, <<binding, UnpublishedEntry>>, <<UnpublishedEntry, binding>>}

\* every answer docker.listContainers({ all: true }) may give in this state
Listings ==
    {{[Id |-> c.Id,
       Names |-> << <<"/">> \o c.Name >>,
       Image |-> c.Image,
       Running |-> c.Running,
       Ports |-> report[c]] : c \in containers}
     : report \in {f \in [containers -> UNION {PortReports(c) : c \in containers}] :
                      \A c \in containers : f[c] \in PortReports(c)}}

\* an external call may also fail for a reason of its own
Fault == IF faults < MaxFaults THEN {"fault"} ELSE {}
Charge(code) == faults' = IF code = "fault" THEN faults + 1 ELSE faults

-----------------------------------------------------------------------------
(* findAvailablePort(min, max)                                             *)

\* mutant: the listing's ports are not collected
Mutant_NoUsedPorts(listing, min, max) == {}

\* usedPorts: every truthy PublicPort within [min, max]
usedPorts(listing, min, max) ==
    UNION {{c.Ports[i].PublicPort : i \in
              {j \in 1..Len(c.Ports) :
                  /\ c.Ports[j].PublicPort # 0
                  /\ c.Ports[j].PublicPort >= min
                  /\ c.Ports[j].PublicPort <= max}} : c \in listing}

\* Math.floor(Math.random() * (max - min + 1) + min), Math.random() = k / RandomSteps
candidatePort(k, min, max) == ((k * (max - min + 1)) \div RandomSteps) + min

Candidates(min, max) == {candidatePort(k, min, max) : k \in 0..(RandomSteps - 1)}

Returns(port) == [kind |-> "return", port |-> port, error |-> "none"]
Throws(error) == [kind |-> "throw", port |-> 0, error |-> error]

\* the sequential search and the exception after it
SequentialScan(min, max, used) ==
    LET free == {port \in min..max : port \notin used}
    IN IF free = {} THEN {Throws("exhausted")}
       ELSE {Returns(CHOOSE port \in free : \A q \in free : port <= q)}

\* the loop reaches attempt number k when the k attempts before it all drew a used port
ReachesAttempt(k, min, max, used) ==
    k = 0 \/ Candidates(min, max) \cap used # {}

\* the random probes: an attempt returns its candidate when it is free; after
\* maxAttempts attempts the sequential search takes over
ProbeLoop(min, max, used) ==
    {Returns(c) : c \in {d \in Candidates(min, max) \ used :
                           \E k \in 0..(maxAttempts - 1) : ReachesAttempt(k, min, max, used)}}
    \cup (IF ReachesAttempt(maxAttempts, min, max, used)
          THEN SequentialScan(min, max, used)
          ELSE {})

\* mutant: a port of the range once taken stays taken
Mutant_RangeStaysTaken(listCode, listing, min, max) ==
    IF listCode = "ok"
    THEN ProbeLoop(min, max, min..max)
    ELSE {Throws("list")}

\* the try block: the listing, then the probes and the scan
TryBlock(listCode, listing, min, max) ==
    IF listCode = "ok"
    THEN ProbeLoop(min, max, usedPorts(listing, min, max))
    ELSE {Throws("list")}

\* mutant: the catch block rethrows
Mutant_CatchRethrows(outcome, min, max) == {outcome}

\* the catch block catches whatever the try block threw
CatchBlock(outcome, min, max) ==
    IF outcome.kind = "throw"
    THEN {Returns(c) : c \in Candidates(min, max)}
    ELSE {outcome}

findAvailablePort(listCode, listing, min, max) ==
    UNION {CatchBlock(o, min, max) : o \in TryBlock(listCode, listing, min, max)}

-----------------------------------------------------------------------------
(* Requests                                                                *)

NoRet == [status |-> "none", cause |-> "none", hostPort |-> 0, list |-> {}]
Success(port, list) ==
    [status |-> "success", cause |-> "none", hostPort |-> port, list |-> list]
Failure(status, cause) ==
    [status |-> status, cause |-> cause, hostPort |-> 0, list |-> {}]

Event(call, code) == [call |-> call, code |-> code]

Init ==
    /\ containers = {}
    /\ nextId = 1
    /\ nginxDir = FALSE
    /\ files = [f \in {} |-> <<>>]
    /\ pc = [p \in Procs |-> "idle"]
    /\ op = [p \in Procs |-> "none"]
    /\ subdomain = [p \in Procs |-> <<>>]
    /\ internalPort = [p \in Procs |-> 0]
    /\ fraction = [p \in Procs |-> 0]
    /\ range = [p \in Procs |-> <<0, 0>>]
    /\ hostPort = [p \in Procs |-> 0]
    /\ containerId = [p \in Procs |-> 0]
    /\ ret = [p \in Procs |-> NoRet]
    /\ log = [p \in Procs |-> <<>>]
    /\ lastCall = [s \in Subdomains |-> "none"]
    /\ callsMade = 0
    /\ faults = 0
    /\ attempt = [p \in Procs |-> 0]

\* a request arrives: the handler is entered with its arguments; the port
\* argument is the number port + tenths / 10
EnterWith(p, theOp, s, port, tenths, minmax, firstPc) ==
    /\ pc[p] = "idle"
    /\ callsMade < MaxCalls
    /\ callsMade' = callsMade + 1
    /\ pc' = [pc EXCEPT ![p] = firstPc]
    /\ op' = [op EXCEPT ![p] = theOp]
    /\ subdomain' = [subdomain EXCEPT ![p] = s]
    /\ internalPort' = [internalPort EXCEPT ![p] = port]
    /\ fraction' = [fraction EXCEPT ![p] = tenths]
    /\ range' = [range EXCEPT ![p] = minmax]
    /\ UNCHANGED <<runtimeVars, fsVars, hostPort, containerId, ret, log, lastCall, faults,
                   attempt>>

\* a request whose port argument is an integer
Enter(p, theOp, s, port, minmax, firstPc) ==
    EnterWith(p, theOp, s, port, 0, minmax, firstPc)

\* request p made the external calls `events` and is now at `next`; at "done" the
\* handler has returned or thrown `value`
Advance(p, next, events, value) ==
    /\ pc' = [pc EXCEPT ![p] = next]
    /\ log' = [log EXCEPT ![p] = @ \o events]
    /\ ret' = IF next = "done" THEN [ret EXCEPT ![p] = value] ELSE ret
    /\ UNCHANGED lastCall

Faulted(p) == \E i \in DOMAIN log[p] : log[p][i].code = "fault"

\* what the response of request p tells about its subdomain: a Deploy that
\* succeeded or not; a Remove that ran to its end (it succeeded, or it threw
\* without any external call having failed) or was cut short by a failing call
Mark(p) ==
    IF op[p] = "deploy"
    THEN [lastCall EXCEPT ![subdomain[p]] =
             IF ret[p].status = "success" THEN "deploy_ok" ELSE "deploy_err"]
    ELSE IF op[p] = "remove"
    THEN [lastCall EXCEPT ![subdomain[p]] =
             IF ret[p].status = "success" \/ ~Faulted(p)
             THEN "remove_done" ELSE "remove_cut"]
    ELSE lastCall

\* the response has been delivered: the request's locals are gone
Return(p) ==
    /\ pc[p] = "done"
    /\ pc' = [pc EXCEPT ![p] = "idle"]
    /\ op' = [op EXCEPT ![p] = "none"]
    /\ subdomain' = [subdomain EXCEPT ![p] = <<>>]
    /\ internalPort' = [internalPort EXCEPT ![p] = 0]
    /\ fraction' = [fraction EXCEPT ![p] = 0]
    /\ range' = [range EXCEPT ![p] = <<0, 0>>]
    /\ hostPort' = [hostPort EXCEPT ![p] = 0]
    /\ containerId' = [containerId EXCEPT ![p] = 0]
    /\ ret' = [ret EXCEPT ![p] = NoRet]
    /\ log' = [log EXCEPT ![p] = <<>>]
    /\ attempt' = [attempt EXCEPT ![p] = 0]
    /\ lastCall' = Mark(p)
    /\ UNCHANGED <<runtimeVars, fsVars, callsMade, faults>>

-----------------------------------------------------------------------------
(* DeployService.deploy(imageName, subdomain, internalPort)                *)

DeployCall(p, s, port) ==
    Enter(p, "deploy", s, port, <<DeployMinPort, DeployMaxPort>>, "d_ping")

\* mutant: a failed ping is only logged
Mutant_IgnorePingFailure(code) == "d_inspect"

\* try { await this.docker.ping() } catch { throw BadRequestException }
AfterPing(code) == IF code = "ok" THEN "d_inspect" ELSE "done"

DeployPing(p) ==
    /\ pc[p] = "d_ping"
    /\ \E code \in {"ok"} \cup Fault :
          /\ Charge(code)
          /\ Advance(p, AfterPing(code), <<Event("ping", code)>>,
                     Failure("connectivity_error", "ping"))
    /\ UNCHANGED <<runtimeVars, fsVars, argVars, hostPort, containerId, callsMade>>

\* mutant: the existing container is never torn down
Mutant_SkipTeardown(code, running) == "d_pull"

\* inspect(); if (State.Running) stop(); remove() -- any error goes to the catch
\* mutant: the existing container is removed without being stopped
Mutant_RemoveWithoutStop(code, running) == IF code = "ok" THEN "d_remove" ELSE "d_pull"

EnsureAbsentAfterInspect(code, running) ==
    IF code = "ok" THEN (IF running THEN "d_stop" ELSE "d_remove") ELSE "d_pull"

\* mutant: the stopped container is not removed
Mutant_KeepStoppedContainer(code) == "d_pull"

EnsureAbsentAfterStop(code) == IF code = "ok" THEN "d_remove" ELSE "d_pull"

DeployInspect(p) ==
    /\ pc[p] = "d_inspect"
    /\ LET name == existingContainerName(subdomain[p])
           running == \E c \in Named(name) : c.Running
       IN \E code \in {InspectCode(name)} \cup Fault :
             /\ Charge(code)
             /\ Advance(p, EnsureAbsentAfterInspect(code, running),
                        <<Event("inspect", code)>>, NoRet)
    /\ UNCHANGED <<runtimeVars, fsVars, argVars, hostPort, containerId, callsMade>>

Stopped(name) ==
    {IF c.Name = name THEN [c EXCEPT !.Running = FALSE] ELSE c : c \in containers}

DeployStop(p) ==
    /\ pc[p] = "d_stop"
    /\ LET name == existingContainerName(subdomain[p])
       IN \E code \in {StopCode(name)} \cup Fault :
             /\ Charge(code)
             /\ containers' = IF code = "ok" THEN Stopped(name) ELSE containers
             /\ Advance(p, EnsureAbsentAfterStop(code), <<Event("stop", code)>>, NoRet)
    /\ UNCHANGED <<nextId, fsVars, argVars, hostPort, containerId, callsMade>>

\* mutant: a failed removal of the existing container ends the deploy
Mutant_TeardownFailureAborts(code) == IF code = "ok" THEN "d_pull" ELSE "done"

\* remove() is the last call of the inner try: past it, or from its catch, the
\* deploy goes on with the pull
EnsureAbsentAfterRemove(code) == "d_pull"

DeployRemove(p) ==
    /\ pc[p] = "d_remove"
    /\ LET name == existingContainerName(subdomain[p])
       IN \E code \in {RemoveCode(name)} \cup Fault :
             /\ Charge(code)
             /\ containers' = IF code = "ok" THEN containers \ Named(name) ELSE containers
             /\ Advance(p, EnsureAbsentAfterRemove(code), <<Event("remove", code)>>, NoRet)
    /\ UNCHANGED <<nextId, fsVars, argVars, hostPort, containerId, callsMade>>

\* mutant: a failed pull is ignored
Mutant_IgnorePullFailure(code) == "f_list"

\* await new Promise(... this.docker.pull ...): a rejection leaves the try block
AfterPull(code) == IF code = "ok" THEN "f_list" ELSE "done"

DeployPull(p) ==
    /\ pc[p] = "d_pull"
    /\ \E code \in {"ok"} \cup Fault :
          /\ Charge(code)
          /\ Advance(p, AfterPull(code), <<Event("pull", code)>>,
                     Failure("deploy_error", "pull"))
    /\ UNCHANGED <<runtimeVars, fsVars, argVars, hostPort, containerId, callsMade>>

\* findAvailablePort: await listContainers, then the synchronous rest
AfterAllocate(theOp, outcome) ==
    IF outcome.kind = "throw" \/ theOp # "deploy" THEN "done" ELSE "d_create"

FindPort(p) ==
    /\ pc[p] = "f_list"
    /\ \E code \in {"ok"} \cup Fault :
          /\ Charge(code)
          /\ \E o \in findAvailablePort(code, ListContainers, range[p][1], range[p][2]) :
                /\ hostPort' = [hostPort EXCEPT ![p] = o.port]
                /\ Advance(p, AfterAllocate(op[p], o), <<Event("list", code)>>,
                           IF o.kind = "throw"
                           THEN Failure(IF op[p] = "deploy" THEN "deploy_error"
                                        ELSE "error", o.error)
                           ELSE Success(o.port, {}))
    /\ UNCHANGED <<runtimeVars, fsVars, argVars, containerId, callsMade>>

AfterCreate(code) == IF code = "ok" THEN "d_start" ELSE "done"

DeployCreate(p) ==
    /\ pc[p] = "d_create"
    /\ LET name == existingContainerName(subdomain[p])
           opts == CreateOptions(ImageName, name, internalPort[p], hostPort[p])
       IN \E code \in {CreateCode(name)} \cup Fault :
             /\ Charge(code)
             /\ IF code = "ok"
                THEN /\ containers' = containers \cup
                          {[Id |-> nextId, Name |-> opts.Name, Image |-> opts.Image,
                            Running |-> FALSE, PortBindings |-> opts.PortBindings]}
                     /\ nextId' = nextId + 1
                     /\ containerId' = [containerId EXCEPT ![p] = nextId]
                ELSE UNCHANGED <<containers, nextId, containerId>>
             /\ Advance(p, AfterCreate(code), <<Event("create", code)>>,
                        Failure("deploy_error", "create"))
    /\ UNCHANGED <<fsVars, argVars, hostPort, callsMade>>

\* mutant: a failed start does not leave the try block
Mutant_IgnoreStartFailure(code) == "write"

AfterStart(code) == IF code = "ok" THEN "write" ELSE "done"

Started(id) ==
    {IF c.Id = id THEN [c EXCEPT !.Running = TRUE] ELSE c : c \in containers}

DeployStart(p) ==
    /\ pc[p] = "d_start"
    /\ \E code \in {StartCode(containerId[p])} \cup Fault :
          /\ Charge(code)
          /\ containers' = IF code = "ok" THEN Started(containerId[p]) ELSE containers
          /\ Advance(p, AfterStart(code), <<Event("start", code)>>,
                     Failure("deploy_error", "start"))
    /\ UNCHANGED <<nextId, fsVars, argVars, hostPort, containerId, callsMade>>

-----------------------------------------------------------------------------
(* NginxService.createProxyConfig(subdomain, containerPort)                *)

\* mutant: only the subdomain is validated
Mutant_SubdomainOnly(s, port, tenths) == MatchesPattern(s)

\* the two validations that precede the filesystem; Number.isInteger holds of
\* port + tenths / 10 when tenths is 0
ValidProxyArgs(s, port, tenths) ==
    /\ MatchesPattern(s)
    /\ tenths = 0 /\ port >= MinValidPort /\ port <= MaxValidPort

\* the port a request hands to createProxyConfig: deploy hands the integer that
\* findAvailablePort returned
ProxyPort(p) == IF op[p] = "deploy" THEN hostPort[p] ELSE internalPort[p]
ProxyTenths(p) == IF op[p] = "deploy" THEN 0 ELSE fraction[p]

\* deploy wraps what createProxyConfig throws; the controller passes it on
ThrownBy(p, cause) ==
    Failure(IF op[p] = "deploy" THEN "deploy_error" ELSE "error", cause)

WithFile(name, content) ==
    [f \in DOMAIN files \cup {name} |-> IF f = name THEN content ELSE files[f]]

WithoutFile(name) == [f \in DOMAIN files \ {name} |-> files[f]]

\* validation, existsSync/mkdirSync, writeFileSync: synchronous, up to the reload
WriteConfig(p) ==
    /\ pc[p] = "write"
    /\ IF ~ValidProxyArgs(subdomain[p], ProxyPort(p), ProxyTenths(p))
       THEN /\ Advance(p, "done", <<>>, ThrownBy(p, "validation"))
            /\ UNCHANGED <<fsVars, faults>>
       ELSE \E mk \in IF nginxDir THEN {"skip"} ELSE {"ok"} \cup Fault :
            \E wr \in IF mk = "fault" THEN {"skip"} ELSE {"ok"} \cup Fault :
               /\ faults' = IF "fault" \in {mk, wr} THEN faults + 1 ELSE faults
               /\ nginxDir' = (nginxDir \/ mk = "ok")
               /\ files' = IF wr = "ok"
                           THEN WithFile(ConfFileName(subdomain[p]),
                                         getNginxConfig(subdomain[p], ProxyPort(p)))
                           ELSE files
               /\ Advance(p, IF wr = "ok" THEN "reload" ELSE "done",
                          (IF mk = "skip" THEN <<>> ELSE <<Event("mkdir", mk)>>)
                          \o (IF wr = "skip" THEN <<>> ELSE <<Event("write", wr)>>),
                          ThrownBy(p, IF mk = "fault" THEN "mkdir" ELSE "write"))
    /\ UNCHANGED <<runtimeVars, argVars, hostPort, containerId, callsMade>>

\* mutant: the reload's failure is thrown
Mutant_ReloadFailureThrows(p, code) ==
    IF code = "ok" THEN Success(ProxyPort(p), {}) ELSE ThrownBy(p, "reload")

\* what the handler returns once `nginx -s reload` has ended with `code`
ReloadResult(p, code) ==
    IF op[p] = "deploy" THEN Success(hostPort[p], {})
    ELSE IF op[p] = "nginx_write" THEN Success(internalPort[p], {})
    ELSE Success(0, {})

\* try { await execPromise('nginx -s reload') } catch { warn }
Reload(p) ==
    /\ pc[p] = "reload"
    /\ \E code \in {"ok"} \cup Fault :
          /\ Charge(code)
          /\ Advance(p, "done", <<Event("reload", code)>>, ReloadResult(p, code))
    /\ UNCHANGED <<runtimeVars, fsVars, argVars, hostPort, containerId, callsMade>>

\* POST /nginx/proxy
NginxWriteCall(p, s, port) ==
    Enter(p, "nginx_write", s, port, <<0, 0>>, "write")

-----------------------------------------------------------------------------
(* DeployService.removeDeployment(subdomain), NginxService.removeProxyConfig *)

RemoveCall(p, s) ==
    Enter(p, "remove", s, 0, <<0, 0>>, "r_inspect")

\* mutant: the outer catch rethrows whatever it caught
Mutant_NotFoundRethrown(code) == "error"

\* the outer catch: 404 becomes the not-found BadRequestException
RemoveErrorStatus(code) == IF code = "404" THEN "not_found" ELSE "error"

\* the inner try: 404 is swallowed, anything else is rethrown
RemoveAfterInspect(code, running) ==
    IF code = "ok" THEN (IF running THEN "r_stop" ELSE "r_remove")
    ELSE IF code = "404" THEN "r_remove" ELSE "done"

\* mutant: a failed stop goes straight on to the config file
Mutant_StopFailureDeletesConfig(code) == IF code = "ok" THEN "r_remove" ELSE "unlink"

RemoveAfterStop(code) == IF code \in {"ok", "404"} THEN "r_remove" ELSE "done"

\* mutant: a failed container removal is swallowed
Mutant_IgnoreRemoveFailure(code) == "unlink"

RemoveAfterRemove(code) == IF code = "ok" THEN "unlink" ELSE "done"

RemoveInspect(p) ==
    /\ pc[p] = "r_inspect"
    /\ LET name == existingContainerName(subdomain[p])
           running == \E c \in Named(name) : c.Running
       IN \E code \in {InspectCode(name)} \cup Fault :
             /\ Charge(code)
             /\ Advance(p, RemoveAfterInspect(code, running),
                        <<Event("inspect", code)>>,
                        Failure(RemoveErrorStatus(code), "inspect"))
    /\ UNCHANGED <<runtimeVars, fsVars, argVars, hostPort, containerId, callsMade>>

RemoveStop(p) ==
    /\ pc[p] = "r_stop"
    /\ LET name == existingContainerName(subdomain[p])
       IN \E code \in {StopCode(name)} \cup Fault :
             /\ Charge(code)
             /\ containers' = IF code = "ok" THEN Stopped(name) ELSE containers
             /\ Advance(p, RemoveAfterStop(code), <<Event("stop", code)>>,
                        Failure(RemoveErrorStatus(code), "stop"))
    /\ UNCHANGED <<nextId, fsVars, argVars, hostPort, containerId, callsMade>>

RemoveContainer(p) ==
    /\ pc[p] = "r_remove"
    /\ LET name == existingContainerName(subdomain[p])
       IN \E code \in {RemoveCode(name)} \cup Fault :
             /\ Charge(code)
             /\ containers' = IF code = "ok" THEN containers \ Named(name) ELSE containers
             /\ Advance(p, RemoveAfterRemove(code), <<Event("remove", code)>>,
                        Failure(RemoveErrorStatus(code), "remove"))
    /\ UNCHANGED <<nextId, fsVars, argVars, hostPort, containerId, callsMade>>

\* removeProxyConfig: existsSync, unlinkSync: synchronous, up to the reload
RemoveConfig(p) ==
    /\ pc[p] = "unlink"
    /\ LET name == ConfFileName(subdomain[p])
       IN IF name \notin DOMAIN files
          THEN /\ Advance(p, "done", <<>>, Failure("error", "config_missing"))
               /\ UNCHANGED <<files, faults>>
          ELSE \E code \in {"ok"} \cup Fault :
                  /\ Charge(code)
                  /\ files' = IF code = "ok" THEN WithoutFile(name) ELSE files
                  /\ Advance(p, IF code = "ok" THEN "reload" ELSE "done",
                             <<Event("unlink", code)>>, Failure("error", "unlink"))
    /\ UNCHANGED <<runtimeVars, nginxDir, argVars, hostPort, containerId, callsMade>>

-----------------------------------------------------------------------------
(* DeployService.listDeployments()                                         *)

\* name.startsWith('/container-')
StartsWithPrefix(name) ==
    Len(name) >= 2 /\ name[1] = "/" /\ name[2] = "container-"

\* String.prototype.replace(token, ''): the first occurrence only
ReplaceFirst(str, token) ==
    LET hits == {i \in 1..Len(str) : str[i] = token}
    IN IF hits = {} THEN str
       ELSE LET first == CHOOSE i \in hits : \A j \in hits : i <= j
            IN SubSeq(str, 1, first - 1) \o SubSeq(str, first + 1, Len(str))

listDeployments(listing) ==
    {[containerId |-> c.Id,
      containerName |-> ReplaceFirst(c.Names[1], "/"),
      subdomain |-> ReplaceFirst(ReplaceFirst(c.Names[1], "/"), "container-"),
      image |-> c.Image,
      hostPort |-> IF Len(c.Ports) >= 1 THEN c.Ports[1].PublicPort ELSE 0]
     : c \in {d \in listing : \E i \in 1..Len(d.Names) : StartsWithPrefix(d.Names[i])}}

ListCall(p) ==
    Enter(p, "list", <<>>, 0, <<0, 0>>, "l_list")

ListDeployments(p) ==
    /\ pc[p] = "l_list"
    /\ \E code \in {"ok"} \cup Fault, listing \in Listings :
          /\ Charge(code)
          /\ Advance(p, "done", <<Event("list", code)>>,
                     IF code = "ok" THEN Success(0, listDeployments(listing))
                     ELSE Failure("error", "list"))
    /\ UNCHANGED <<runtimeVars, fsVars, argVars, hostPort, containerId, callsMade>>

-----------------------------------------------------------------------------
(* NginxController: the proxy config service called on its own             *)

\* the inputs of POST /nginx/proxy: the subdomains, the empty string among them,
\* and the numbers 0, 1, 3000, 3000.5, 65535, 65536 and -1 as <<integer, tenths>>
ProxySubdomains == Subdomains \cup {<<>>}
ProxyPorts == {<<0, 0>>, <<1, 0>>, <<3000, 0>>, <<3000, 5>>, <<65535, 0>>,
               <<65536, 0>>, <<-1, 0>>}

createProxyConfigCall(p, s, number) ==
    EnterWith(p, "nginx_write", s, number[1], number[2], <<0, 0>>, "write")

\* DELETE /nginx/proxy/:subdomain
removeProxyConfigCall(p, s) ==
    Enter(p, "nginx_remove", s, 0, <<0, 0>>, "unlink")

\* file.endsWith('.conf')
EndsWithConf(file) == Len(file) >= 1 /\ file[Len(file)] = ".conf"

\* `${subdomain}.boogiepop.cloud`
FullDomain(s) == s \o <<".boogiepop.cloud">>

\* readdirSync, filter, map: one entry per file that ends in .conf
listProxyConfigs(dir) ==
    {[subdomain |-> FullDomain(ReplaceFirst(file, ".conf")),
      port |-> ParsePort(dir[file]),
      filePath |-> file] : file \in {f \in DOMAIN dir : EndsWithConf(f)}}

\* GET /nginx/proxy
listProxyConfigsCall(p) ==
    Enter(p, "nginx_list", <<>>, 0, <<0, 0>>, "p_list")

\* listProxyConfigs: synchronous; [] when the directory does not exist
ListProxyConfigs(p) ==
    /\ pc[p] = "p_list"
    /\ IF ~nginxDir
       THEN /\ Advance(p, "done", <<>>, Success(0, {}))
            /\ UNCHANGED faults
       ELSE \E code \in {"ok"} \cup Fault :
               /\ Charge(code)
               /\ Advance(p, "done", <<Event("read", code)>>,
                          IF code = "ok" THEN Success(0, listProxyConfigs(files))
                          ELSE Failure("error", "read"))
    /\ UNCHANGED <<runtimeVars, fsVars, argVars, hostPort, containerId, callsMade>>

-----------------------------------------------------------------------------
(* Specifications                                                          *)

\* the steps of a Deploy in progress
DeploySteps(p) ==
    \/ DeployPing(p)
    \/ DeployInspect(p)
    \/ DeployStop(p)
    \/ DeployRemove(p)
    \/ DeployPull(p)
    \/ FindPort(p)
    \/ DeployCreate(p)
    \/ DeployStart(p)
    \/ WriteConfig(p)
    \/ Reload(p)

\* the steps of a Remove in progress (its reload is the step Reload above)
RemoveSteps(p) ==
    \/ RemoveInspect(p)
    \/ RemoveStop(p)
    \/ RemoveContainer(p)
    \/ RemoveConfig(p)

\* the steps of the requests in progress
Steps(p) ==
    \/ DeploySteps(p)
    \/ RemoveSteps(p)
    \/ ListDeployments(p)
    \/ Return(p)

\* the deploy controller's requests
DeployRequests(p) ==
    \/ \E s \in Subdomains, port \in InternalPorts : DeployCall(p, s, port)
    \/ \E s \in Subdomains : RemoveCall(p, s)
    \/ ListCall(p)

\* Deploy, Remove and List requests that overlap in time
Next == \E p \in Procs : DeployRequests(p) \/ Steps(p)

Spec == Init /\ [][Next]_vars

\* one request after the other (each starts after the one before it returned),
\* the proxy controller's write among them
SeqNext ==
    \/ DeployRequests(1)
    \/ \E s \in Subdomains, port \in InternalPorts : NginxWriteCall(1, s, port)
    \/ Steps(1)

SeqSpec == Init /\ [][SeqNext]_vars

\* Deploy and Remove calls for cliente1 overlapping with Deploy and Remove calls
\* for ghost: request slot 1 serves the one subdomain, slot 2 the other
PairSubdomain == <<Cliente1, Ghost>>

PairNext ==
    \E p \in DOMAIN PairSubdomain :
        \/ \E port \in InternalPorts : DeployCall(p, PairSubdomain[p], port)
        \/ RemoveCall(p, PairSubdomain[p])
        \/ DeploySteps(p)
        \/ RemoveSteps(p)
        \/ Return(p)

PairSpec == Init /\ [][PairNext]_vars

\* findAvailablePort(min, max) called on its own, against a runtime that already
\* holds containers deployed earlier, on any ports around the range
AllocPorts == DeployMinPort..(DeployMinPort + AllocWidths)

Earlier(i) == <<"s">> \o DigitsOf(i)

AllocInit ==
    /\ \E bound \in [1..AllocWidths -> {0} \cup AllocPorts] :
       \E stopped \in SUBSET {j \in 1..AllocWidths : bound[j] # 0} :
          containers =
              {[Id |-> i, Name |-> existingContainerName(Earlier(i)), Image |-> ImageName,
                Running |-> i \notin stopped,
                PortBindings |-> [PrivatePort |-> 3000, HostPort |-> bound[i]]]
               : i \in {j \in 1..AllocWidths : bound[j] # 0}}
    /\ nextId = AllocWidths + 1
    /\ nginxDir = FALSE
    /\ files = [f \in {} |-> <<>>]
    /\ pc = [p \in Procs |-> "idle"]
    /\ op = [p \in Procs |-> "none"]
    /\ subdomain = [p \in Procs |-> <<>>]
    /\ internalPort = [p \in Procs |-> 0]
    /\ fraction = [p \in Procs |-> 0]
    /\ range = [p \in Procs |-> <<0, 0>>]
    /\ hostPort = [p \in Procs |-> 0]
    /\ containerId = [p \in Procs |-> 0]
    /\ ret = [p \in Procs |-> NoRet]
    /\ log = [p \in Procs |-> <<>>]
    /\ lastCall = [s \in Subdomains |-> "none"]
    /\ callsMade = 0
    /\ faults = 0
    /\ attempt = [p \in Procs |-> 0]

AllocCall(p, min, max) == Enter(p, "alloc", <<>>, 0, <<min, max>>, "f_list")

AllocNext ==
    \/ \E w \in 0..(AllocWidths - 1) : AllocCall(1, DeployMinPort, DeployMinPort + w)
    \/ FindPort(1)
    \/ Return(1)

AllocSpec == AllocInit /\ [][AllocNext]_vars

\* a range of k ports that k earlier deploys have filled: the deployment of
\* Earlier(i) is routed and its container binds the i-th port of the range
ReuseInit ==
    /\ \E k \in 1..AllocWidths :
       \E stopped \in SUBSET (1..k) :
          /\ containers =
                 {[Id |-> i, Name |-> existingContainerName(Earlier(i)), Image |-> ImageName,
                   Running |-> i \notin stopped,
                   PortBindings |-> [PrivatePort |-> 3000,
                                     HostPort |-> DeployMinPort + i - 1]]
                  : i \in 1..k}
          /\ nextId = k + 1
          /\ files = [f \in {ConfFileName(Earlier(i)) : i \in 1..k} |->
                        LET i == CHOOSE j \in 1..k : ConfFileName(Earlier(j)) = f
                        IN getNginxConfig(Earlier(i), DeployMinPort + i - 1)]
    /\ nginxDir = TRUE
    /\ pc = [p \in Procs |-> "idle"]
    /\ op = [p \in Procs |-> "none"]
    /\ subdomain = [p \in Procs |-> <<>>]
    /\ internalPort = [p \in Procs |-> 0]
    /\ fraction = [p \in Procs |-> 0]
    /\ range = [p \in Procs |-> <<0, 0>>]
    /\ hostPort = [p \in Procs |-> 0]
    /\ containerId = [p \in Procs |-> 0]
    /\ ret = [p \in Procs |-> NoRet]
    /\ log = [p \in Procs |-> <<>>]
    /\ lastCall = [s \in Subdomains \cup {Earlier(i) : i \in 1..AllocWidths} |-> "none"]
    /\ callsMade = 0
    /\ faults = 0
    /\ attempt = [p \in Procs |-> 0]

\* removals of the earlier deployments and allocations over the range they
\* filled, one call after the other
ReuseNext ==
    \/ AllocCall(1, DeployMinPort, DeployMinPort + nextId - 2)
    \/ \E i \in 1..(nextId - 1) : RemoveCall(1, Earlier(i))
    \/ FindPort(1)
    \/ RemoveSteps(1)
    \/ Reload(1)
    \/ Return(1)

ReuseSpec == ReuseInit /\ [][ReuseNext]_vars

\* findAvailablePort with its loop run one iteration at a time
ProbeCall(p, min, max) == Enter(p, "alloc", <<>>, 0, <<min, max>>, "a_list")

\* the listing and the used-port set; a listing that fails goes to the catch
ListUsed(p) ==
    /\ pc[p] = "a_list"
    /\ \E code \in {"ok"} \cup Fault :
          /\ Charge(code)
          /\ IF code = "ok"
             THEN /\ Advance(p, "a_probe", <<Event("list", code)>>, NoRet)
                  /\ UNCHANGED hostPort
             ELSE \E o \in CatchBlock(Throws("list"), range[p][1], range[p][2]) :
                     /\ hostPort' = [hostPort EXCEPT ![p] = o.port]
                     /\ Advance(p, "done", <<Event("list", code)>>, Success(o.port, {}))
    /\ UNCHANGED <<runtimeVars, fsVars, argVars, containerId, callsMade>>

\* mutant: the loop does not count its attempts
Mutant_AttemptNotCounted(k) == k

\* attempt++
NextAttempt(k) == k + 1

\* one iteration of for (attempt = 0; attempt < maxAttempts; attempt++): a
\* candidate is drawn and returned when it is not used
Probe(p) ==
    /\ pc[p] = "a_probe"
    /\ attempt[p] < maxAttempts
    /\ \E c \in Candidates(range[p][1], range[p][2]) :
          IF c \notin usedPorts(ListContainers, range[p][1], range[p][2])
          THEN /\ hostPort' = [hostPort EXCEPT ![p] = c]
               /\ Advance(p, "done", <<>>, Success(c, {}))
               /\ UNCHANGED attempt
          ELSE /\ attempt' = [attempt EXCEPT ![p] = NextAttempt(@)]
               /\ UNCHANGED <<pc, log, ret, lastCall, hostPort>>
    /\ UNCHANGED <<runtimeVars, fsVars, op, subdomain, internalPort, fraction, range,
                   containerId, callsMade, faults>>

\* the loop is over: the sequential search, the exception after it and the catch
Scan(p) ==
    /\ pc[p] = "a_probe"
    /\ attempt[p] >= maxAttempts
    /\ \E found \in SequentialScan(range[p][1], range[p][2],
                                    usedPorts(ListContainers, range[p][1], range[p][2])) :
       \E o \in CatchBlock(found, range[p][1], range[p][2]) :
          /\ hostPort' = [hostPort EXCEPT ![p] = o.port]
          /\ Advance(p, "done", <<>>, Success(o.port, {}))
    /\ UNCHANGED <<runtimeVars, fsVars, argVars, containerId, callsMade, faults>>

\* a range of k ports that k earlier deploys filled and from which some of the
\* deployments have been removed since
ProbeInit ==
    /\ \E k \in 1..AllocWidths :
       \E present \in SUBSET (1..k) :
          /\ containers =
                 {[Id |-> i, Name |-> existingContainerName(Earlier(i)), Image |-> ImageName,
                   Running |-> TRUE,
                   PortBindings |-> [PrivatePort |-> 3000,
                                     HostPort |-> DeployMinPort + i - 1]]
                  : i \in present}
          /\ nextId = k + 1
          /\ files = [f \in {ConfFileName(Earlier(i)) : i \in present} |->
                        LET i == CHOOSE j \in present : ConfFileName(Earlier(j)) = f
                        IN getNginxConfig(Earlier(i), DeployMinPort + i - 1)]
    /\ nginxDir = TRUE
    /\ pc = [p \in Procs |-> "idle"]
    /\ op = [p \in Procs |-> "none"]
    /\ subdomain = [p \in Procs |-> <<>>]
    /\ internalPort = [p \in Procs |-> 0]
    /\ fraction = [p \in Procs |-> 0]
    /\ range = [p \in Procs |-> <<0, 0>>]
    /\ hostPort = [p \in Procs |-> 0]
    /\ containerId = [p \in Procs |-> 0]
    /\ ret = [p \in Procs |-> NoRet]
    /\ log = [p \in Procs |-> <<>>]
    /\ lastCall = [s \in Subdomains |-> "none"]
    /\ callsMade = 0
    /\ faults = 0
    /\ attempt = [p \in Procs |-> 0]

\* allocations over that range, the allocator's loop taken one iteration at a time
ProbeNext ==
    \/ ProbeCall(1, DeployMinPort, DeployMinPort + nextId - 2)
    \/ ListUsed(1)
    \/ Probe(1)
    \/ Scan(1)
    \/ Return(1)

\* the code from the listing's answer to the return has no await: once entered
\* it runs on
ProbeSpec ==
    ProbeInit /\ [][ProbeNext]_vars /\ WF_vars(ListUsed(1) \/ Probe(1) \/ Scan(1))

\* the proxy controller's requests, one after the other
NginxNext ==
    \/ \E s \in ProxySubdomains, number \in ProxyPorts : createProxyConfigCall(1, s, number)
    \/ \E s \in ProxySubdomains : removeProxyConfigCall(1, s)
    \/ listProxyConfigsCall(1)
    \/ WriteConfig(1)
    \/ RemoveConfig(1)
    \/ Reload(1)
    \/ ListProxyConfigs(1)
    \/ Return(1)

NginxSpec == Init /\ [][NginxNext]_vars

-----------------------------------------------------------------------------
(* Properties                                                              *)

Done(p, theOp) == pc[p] = "done" /\ op[p] = theOp
Succeeded(p) == ret[p].status = "success"
Ok(p, call) == \E i \in DOMAIN log[p] : log[p][i] = Event(call, "ok")
Called(p, call) == \E i \in DOMAIN log[p] : log[p][i].call = call
ContainersOf(s) == Named(existingContainerName(s))
HasConfig(s) == ConfFileName(s) \in DOMAIN files

\* the content holds the directive proxy_pass http://localhost:<port>;
RoutesTo(content, port) ==
    \E i \in 1..Len(content) :
        /\ content[i] = ProxyPassToken
        /\ i + Len(DigitsOf(port)) + 1 <= Len(content)
        /\ SubSeq(content, i + 1, i + Len(DigitsOf(port))) = DigitsOf(port)
        /\ content[i + Len(DigitsOf(port)) + 1] = ";"

\* C1: there are never two containers named container-s; and a Deploy(s) that
\* follows a successful Deploy(s) and meets no failing external call returns
\* success and leaves exactly one container named container-s and the one file
\* s.conf.
C1_RedeployLeavesOne ==
    /\ \A s \in Subdomains : Cardinality(ContainersOf(s)) <= 1
    /\ \A p \in Procs :
          (Done(p, "deploy") /\ lastCall[subdomain[p]] = "deploy_ok" /\ ~Faulted(p))
          => /\ Succeeded(p)
             /\ Cardinality(ContainersOf(subdomain[p])) = 1
             /\ HasConfig(subdomain[p])

\* a second Deploy(s) has torn down the first one's container and returned success
C1_Witness ==
    \E p \in Procs :
        /\ Done(p, "deploy") /\ lastCall[subdomain[p]] = "deploy_ok" /\ Succeeded(p)
        /\ Ok(p, "stop") /\ Ok(p, "remove") /\ Ok(p, "create")
        /\ Cardinality(ContainersOf(subdomain[p])) = 1

\* C2: when the listing succeeded and every port of [min, max] is bound by a
\* container, findAvailablePort ends with the exhaustion error and returns no
\* port.
C2_SaturatedRangeFails ==
    \A p \in Procs :
        (/\ Done(p, "alloc")
         /\ Ok(p, "list")
         /\ \A port \in range[p][1]..range[p][2] :
               port \in usedPorts(ListContainers, range[p][1], range[p][2]))
        => /\ ret[p].status # "success"
           /\ ret[p].cause = "exhausted"

\* C3: a Deploy with a subdomain that does not match the pattern makes no
\* external call, creates no container and ends with the validation error.
C3_InvalidSubdomainTouchesNothing ==
    \A p \in Procs :
        (op[p] = "deploy" /\ ~MatchesPattern(subdomain[p]))
        => /\ log[p] = <<>>
           /\ ContainersOf(subdomain[p]) = {}
           /\ (pc[p] = "done" => ret[p].cause = "validation")

\* C4: whenever no call is in progress, s.conf exists exactly when a container
\* named container-s exists (stated for the runs in which no external call has
\* failed, where the claim is at its weakest).
C4_ConfigIffContainer ==
    ((\A p \in Procs : pc[p] = "idle") /\ faults = 0)
    => \A s \in Subdomains : HasConfig(s) <=> ContainersOf(s) # {}

\* C5: a Deploy touches the config directory and reloads the proxy only after its
\* own start call returned successfully; once its create or start has failed it
\* has returned an error.
C5_ConfigOnlyAfterStart ==
    \A p \in Procs :
        op[p] = "deploy"
        => /\ \A i \in DOMAIN log[p] :
                 log[p][i].call \in {"mkdir", "write", "reload"}
                 => \E j \in 1..(i - 1) : log[p][j] = Event("start", "ok")
           /\ \A i \in DOMAIN log[p] :
                 (log[p][i].call \in {"create", "start"} /\ log[p][i].code # "ok")
                 => /\ i = Len(log[p])
                    /\ pc[p] = "done"
                    /\ ret[p].status = "deploy_error"

\* a Deploy has written its config, after its start
C5_Witness ==
    \E p \in Procs :
        /\ op[p] = "deploy" /\ Ok(p, "start") /\ Ok(p, "write")
        /\ HasConfig(subdomain[p])

\* C6: two Deploy calls for different subdomains that overlap, both return
\* success and whose listings both succeeded return different host ports.
C6_DistinctHostPorts ==
    \A p, q \in Procs :
        (/\ p # q
         /\ Done(p, "deploy") /\ Done(q, "deploy")
         /\ Succeeded(p) /\ Succeeded(q)
         /\ Ok(p, "list") /\ Ok(q, "list")
         /\ subdomain[p] # subdomain[q])
        => ret[p].hostPort # ret[q].hostPort

\* C7: once a Remove(s) has run to its end, and until the next Deploy(s), a List()
\* that succeeds returns no entry whose subdomain is s.
C7_RemovedNotListed ==
    \A p \in Procs :
        (Done(p, "list") /\ Succeeded(p))
        => \A s \in Subdomains :
              lastCall[s] = "remove_done"
              => \A e \in ret[p].list : e.subdomain # s

\* s was deployed, then removed, and the List() after that has returned nothing
C7_Witness ==
    \E p \in Procs :
        /\ Done(p, "list") /\ Succeeded(p) /\ ret[p].list = {}
        /\ nextId = 2 /\ containers = {}
        /\ \E s \in Subdomains :
              /\ lastCall[s] = "remove_done"
              /\ \A other \in Subdomains \ {s} : lastCall[other] = "none"

\* the events a step appended to the log of p
NewEvents(p) == SubSeq(log'[p], Len(log[p]) + 1, Len(log'[p]))

\* C8: a step of Remove(s) taken while neither container-s nor s.conf exists
\* changes no container and no file, never goes on to the config deletion or the
\* reload, and, unless its external call failed, the removal step ends the call
\* with the not-found error.
C8_RemoveAbsentStep(p) ==
    (/\ op[p] = "remove"
     /\ pc[p] \in {"r_inspect", "r_stop", "r_remove"}
     /\ pc'[p] # pc[p]
     /\ ContainersOf(subdomain[p]) = {}
     /\ ~HasConfig(subdomain[p]))
    => /\ containers' = containers
       /\ files' = files
       /\ nginxDir' = nginxDir
       /\ pc'[p] \in {"r_remove", "done"}
       /\ \A i \in DOMAIN NewEvents(p) :
             /\ NewEvents(p)[i].call \in {"inspect", "stop", "remove"}
             /\ NewEvents(p)[i].code # "ok"
       /\ (\A i \in DOMAIN NewEvents(p) : NewEvents(p)[i].code # "fault")
          => /\ pc[p] = "r_inspect" => pc'[p] = "r_remove"
             /\ pc[p] = "r_remove" =>
                   pc'[p] = "done" /\ ret'[p] = Failure("not_found", "remove")

C8_RemoveAbsentNotFound == [][\A p \in Procs : C8_RemoveAbsentStep(p)]_vars

\* Remove("ghost") on a runtime that never held it has ended with not-found
C8_Witness ==
    \E p \in Procs :
        /\ Done(p, "remove") /\ ret[p].status = "not_found"
        /\ log[p] = <<Event("inspect", "404"), Event("remove", "404")>>
        /\ ContainersOf(subdomain[p]) = {} /\ ~HasConfig(subdomain[p])

\* the reload of request p was issued and failed
ReloadFailed(p) ==
    Len(log[p]) > 0 /\ log[p][Len(log[p])] = Event("reload", "fault")

\* C9: a Deploy or a direct config write whose reload failed returns success, and
\* s.conf exists and routes to the port it was written for.
C9_ReloadFailureIsSuccess ==
    \A p \in Procs :
        (pc[p] = "done" /\ op[p] \in {"deploy", "nginx_write"} /\ ReloadFailed(p))
        => /\ Succeeded(p)
           /\ ret[p].hostPort = ProxyPort(p)
           /\ HasConfig(subdomain[p])
           /\ RoutesTo(files[ConfFileName(subdomain[p])], ProxyPort(p))

\* a Deploy has returned after a failed reload
C9_Witness ==
    \E p \in Procs :
        /\ Done(p, "deploy") /\ ReloadFailed(p) /\ Ok(p, "start")
        /\ HasConfig(subdomain[p])

\* C10: a Deploy that returned success returned a host port within [3003, 4000];
\* the one container named container-s is started and binds that host port to
\* the internal port; s.conf routes to that host port.
C10_SuccessfulDeploy ==
    \A p \in Procs :
        (Done(p, "deploy") /\ Succeeded(p))
        => /\ ret[p].hostPort \in 3003..4000
           /\ \E c \in ContainersOf(subdomain[p]) :
                 /\ ContainersOf(subdomain[p]) = {c}
                 /\ c.Running
                 /\ c.PortBindings.HostPort = ret[p].hostPort
                 /\ c.PortBindings.PrivatePort = internalPort[p]
           /\ HasConfig(subdomain[p])
           /\ RoutesTo(files[ConfFileName(subdomain[p])], ret[p].hostPort)

\* Deploy(image, "cliente1", 3000) has returned success
C10_Witness ==
    \E p \in Procs :
        /\ Done(p, "deploy") /\ Succeeded(p)
        /\ subdomain[p] = Cliente1 /\ internalPort[p] = 3000
        /\ HasConfig(Cliente1)

\* C11: a Remove(s) that met no failing external call ends with no container
\* named container-s and no file s.conf, whatever of the two existed before it.
C11_RemoveLeavesNothing ==
    \A p \in Procs :
        (Done(p, "remove") /\ ~Faulted(p))
        => /\ ContainersOf(subdomain[p]) = {}
           /\ ~HasConfig(subdomain[p])

\* C12: a Deploy(s) for a valid s in which no external call fails returns
\* success whatever existed for s before: a container that was there has been
\* removed, the one container named container-s is the one this call created, it
\* is started, and s.conf routes to the host port that container binds.
C12_DeployReplaces ==
    \A p \in Procs :
        (Done(p, "deploy") /\ ~Faulted(p) /\ MatchesPattern(subdomain[p]))
        => /\ Succeeded(p)
           /\ log[p][2] = Event("inspect", "ok") => Ok(p, "remove")
           /\ Ok(p, "create") /\ Ok(p, "start")
           /\ \E c \in ContainersOf(subdomain[p]) :
                 /\ ContainersOf(subdomain[p]) = {c}
                 /\ c.Id = containerId[p]
                 /\ c.Id = nextId - 1
                 /\ c.Running
                 /\ HasConfig(subdomain[p])
                 /\ RoutesTo(files[ConfFileName(subdomain[p])], c.PortBindings.HostPort)

\* a Deploy(s) has replaced a container that an earlier call had left stopped
C12_Witness ==
    \E p \in Procs :
        /\ Done(p, "deploy") /\ Succeeded(p) /\ ~Faulted(p)
        /\ log[p][2] = Event("inspect", "ok")
        /\ ~Called(p, "stop") /\ Ok(p, "remove")
        /\ \E c \in ContainersOf(subdomain[p]) : c.Id = containerId[p] /\ c.Running

\* C13: a Remove with a subdomain that does not match the pattern makes no
\* runtime call and no filesystem call, and ends with the validation error.
C13_RemoveValidatesSubdomain ==
    \A p \in Procs :
        (op[p] = "remove" /\ ~MatchesPattern(subdomain[p]))
        => /\ log[p] = <<>>
           /\ pc[p] # "unlink"
           /\ (pc[p] = "done" => ret[p].cause = "validation")

\* the listing that findAvailablePort asked of the runtime failed
ListFailed(p) ==
    /\ op[p] \in {"deploy", "alloc"}
    /\ \E i \in DOMAIN log[p] : log[p][i] = Event("list", "fault")

\* C14: when the listing fails, findAvailablePort returns a port of [min, max];
\* called on its own it ends with that port, and the Deploy that called it goes on
\* to create the container.
C14_ListFailureFallsBack ==
    \A p \in Procs :
        ListFailed(p)
        => /\ hostPort[p] >= range[p][1] /\ hostPort[p] <= range[p][2]
           /\ op[p] = "alloc" =>
                 pc[p] = "done" /\ Succeeded(p) /\ ret[p].hostPort = hostPort[p]
           /\ op[p] = "deploy" => pc[p] = "d_create" \/ Called(p, "create")

\* a Deploy whose listing failed has created its container on a host port that
\* another container binds already
C14_Witness ==
    \E p \in Procs :
        /\ op[p] = "deploy" /\ ListFailed(p) /\ Ok(p, "create")
        /\ \E c \in containers :
              c.Id # containerId[p] /\ c.PortBindings.HostPort = hostPort[p]

\* the host ports of [min, max] that the containers of the runtime bind publicly
BoundPorts(min, max) ==
    {c.PortBindings.HostPort : c \in containers} \cap (min..max)

C16_PingStep(p) ==
    /\ (op'[p] = "deploy" /\ log'[p] # <<>>)
       => /\ log'[p][1].call = "ping"
          /\ log'[p][1].code # "ok" =>
                /\ log'[p] = <<Event("ping", "fault")>>
                /\ pc'[p] = "done"
                /\ ret'[p] = Failure("connectivity_error", "ping")
    /\ (pc[p] = "d_ping" /\ pc'[p] # "d_ping")
       => /\ log[p] = <<>> /\ Len(log'[p]) = 1
          /\ containers' = containers
          /\ files' = files
          /\ nginxDir' = nginxDir

C16_PingFirst == [][\A p \in Procs : C16_PingStep(p)]_vars

\* a Deploy of a routed subdomain has ended at its failed ping; the container and
\* the config of the subdomain are still there
C16_Witness ==
    \E p \in Procs :
        /\ Done(p, "deploy") /\ ret[p].status = "connectivity_error"
        /\ log[p] = <<Event("ping", "fault")>>
        /\ \E c \in ContainersOf(subdomain[p]) : c.Running
        /\ HasConfig(subdomain[p])

\* how many times request p made the external call `call`
TimesCalled(p, call) == Cardinality({i \in DOMAIN log[p] : log[p][i].call = call})

\* C17: within one Deploy each of pull, create and start is called at most once;
\* when one of them failed it is the last external call of the Deploy, which has
\* ended with an error.
C17_FailureAbortsNoRetry ==
    \A p \in Procs :
        op[p] = "deploy"
        => /\ \A call \in {"pull", "create", "start"} : TimesCalled(p, call) <= 1
           /\ \A i \in DOMAIN log[p] :
                 (log[p][i].call \in {"pull", "create", "start"} /\ log[p][i].code # "ok")
                 => /\ i = Len(log[p])
                    /\ pc[p] = "done"
                    /\ ret[p] = Failure("deploy_error", log[p][i].call)

\* a Deploy has ended at its failed pull, after it removed the old container
C17_Witness ==
    \E p \in Procs :
        /\ Done(p, "deploy") /\ ret[p] = Failure("deploy_error", "pull")
        /\ Ok(p, "remove")
        /\ log[p][Len(log[p])] = Event("pull", "fault")
        /\ ~Called(p, "list") /\ ~Called(p, "create")

\* the containers and the files that a step created, deleted or changed
TouchedContainers == (containers \ containers') \cup (containers' \ containers)
TouchedFiles ==
    {f \in DOMAIN files \cup DOMAIN files' :
        \/ f \notin DOMAIN files
        \/ f \notin DOMAIN files'
        \/ files[f] # files'[f]}

\* C18: while calls for cliente1 and calls for ghost overlap, a step of a call for
\* subdomain s creates, stops, starts or removes only containers named
\* container-s, writes or deletes only the file s.conf, and its inspect is
\* answered for container-s; so no step of a call for the one subdomain touches
\* the container or the config of the other.
C18_Step(p) ==
    (pc'[p] # pc[p] /\ op[p] \in {"deploy", "remove"})
    => /\ \A c \in TouchedContainers : c.Name = <<"container-">> \o subdomain[p]
       /\ \A f \in TouchedFiles : f = subdomain[p] \o <<".conf">>
       /\ \A i \in DOMAIN NewEvents(p) :
             NewEvents(p)[i].call = "inspect"
             => /\ NewEvents(p)[i].code = "ok"
                   => \E c \in containers : c.Name = <<"container-">> \o subdomain[p]
                /\ NewEvents(p)[i].code = "404"
                   => \A c \in containers : c.Name # <<"container-">> \o subdomain[p]

C18_DisjointSubdomains == [][\A p \in Procs : C18_Step(p)]_vars

\* a Deploy of one subdomain has created its container while a Remove of the
\* other subdomain, in progress, has removed its own
C18_Witness ==
    \E p, q \in Procs :
        /\ op[p] = "deploy" /\ op[q] = "remove" /\ subdomain[p] # subdomain[q]
        /\ pc[p] \notin {"idle", "done"} /\ pc[q] \notin {"idle", "done"}
        /\ Ok(p, "create") /\ Ok(q, "remove")
        /\ ContainersOf(subdomain[p]) # {} /\ HasConfig(subdomain[q])

\* C19: a config write whose subdomain does not match the pattern (the empty
\* string included) or whose port is not an integer of [1, 65535] makes no
\* filesystem call and issues no reload, and ends with the validation error; so
\* every file of the directory is s.conf for a matching s and routes to an
\* integer port of [1, 65535].
C19_WriteValidatesFirst ==
    /\ \A p \in Procs :
          (/\ op[p] = "nginx_write"
           /\ \/ subdomain[p] = <<>>
              \/ \E i \in DOMAIN subdomain[p] :
                    subdomain[p][i] \notin LowerCase \cup Digit \cup {"-"}
              \/ fraction[p] # 0
              \/ internalPort[p] < 1
              \/ internalPort[p] > 65535)
          => /\ log[p] = <<>>
             /\ pc[p] \in {"write", "done"}
             /\ pc[p] = "done" => ret[p] = Failure("error", "validation")
    /\ \A f \in DOMAIN files :
          /\ \E s \in ProxySubdomains : MatchesPattern(s) /\ f = s \o <<".conf">>
          /\ ParsePort(files[f]) \in 1..65535

\* the write of the number 3000.5 for a matching subdomain has been rejected
\* while the directory does not exist
C19_Witness ==
    \E p \in Procs :
        /\ Done(p, "nginx_write") /\ ret[p] = Failure("error", "validation")
        /\ MatchesPattern(subdomain[p]) /\ fraction[p] # 0
        /\ log[p] = <<>> /\ ~nginxDir

\* C20: a config List() that succeeds returns one entry per file of the directory
\* and no other entry; the entry of s.conf names s.boogiepop.cloud and carries the
\* port that renders the file's content, which for the file a Write(s, port) has
\* just written is that port.
C20_ListReflectsFiles ==
    /\ \A p \in Procs :
          (Done(p, "nginx_list") /\ Succeeded(p))
          => /\ {e.filePath : e \in ret[p].list} = DOMAIN files
             /\ Cardinality(ret[p].list) = Cardinality(DOMAIN files)
             /\ \A e \in ret[p].list :
                   \E s \in ProxySubdomains :
                      /\ e.filePath = s \o <<".conf">>
                      /\ e.subdomain = s \o <<".boogiepop.cloud">>
                      /\ files[e.filePath] = getNginxConfig(s, e.port)
    /\ \A p \in Procs :
          (op[p] = "nginx_write" /\ Ok(p, "write"))
          => [subdomain |-> subdomain[p] \o <<".boogiepop.cloud">>,
              port |-> internalPort[p],
              filePath |-> subdomain[p] \o <<".conf">>] \in listProxyConfigs(files)

\* after two writes and the removal of one of them, List() has returned the one
\* entry of the other, with port 65535
C20_Witness ==
    \E p \in Procs :
        /\ Done(p, "nginx_list") /\ Succeeded(p)
        /\ callsMade >= 3
        /\ \E e \in ret[p].list : ret[p].list = {e} /\ e.port = 65535

\* C21: in a Deploy, an inspect, stop or remove of the existing container that
\* did not succeed (not found, or any other error) is followed by the pull, never
\* by the end of the Deploy; and once the pull has succeeded and the port is
\* chosen, the create is attempted.
C21_TeardownErrorsNotFatal ==
    \A p \in Procs :
        op[p] = "deploy"
        => /\ \A i \in DOMAIN log[p] :
                 (log[p][i].call \in {"inspect", "stop", "remove"} /\ log[p][i].code # "ok")
                 => IF i = Len(log[p]) THEN pc[p] = "d_pull"
                    ELSE log[p][i + 1].call = "pull"
           /\ (Ok(p, "pull") /\ pc[p] # "f_list")
              => pc[p] = "d_create" \/ Called(p, "create")

\* the removal of the existing container failed and the Deploy has gone on to
\* pull and to attempt the create
C21_Witness ==
    \E p \in Procs :
        /\ op[p] = "deploy" /\ Ok(p, "inspect")
        /\ \E i \in DOMAIN log[p] : log[p][i] = Event("remove", "fault")
        /\ Ok(p, "pull") /\ Called(p, "create")

RemoveRank(call) ==
    CASE call = "inspect" -> 1
      [] call = "stop"    -> 2
      [] call = "remove"  -> 3
      [] call = "unlink"  -> 4
      [] call = "reload"  -> 5
      [] OTHER            -> 0

\* C23: the calls of a Remove come in the order inspect, stop, remove of the
\* container, deletion of s.conf, reload; the stop follows an inspect that
\* found the container; the config file is deleted only right after a
\* successful container removal; and when the stop or the removal did not
\* succeed, the Remove neither deletes the file nor reloads.
C23_RemoveOrder ==
    \A p \in Procs :
        op[p] = "remove"
        => /\ \A i \in DOMAIN log[p] :
                 /\ RemoveRank(log[p][i].call) > 0
                 /\ i = 1 => log[p][i].call = "inspect"
                 /\ i > 1 => RemoveRank(log[p][i - 1].call) < RemoveRank(log[p][i].call)
                 /\ log[p][i].call = "stop" => log[p][i - 1] = Event("inspect", "ok")
                 /\ log[p][i].call = "unlink" => log[p][i - 1] = Event("remove", "ok")
                 /\ log[p][i].call = "reload" => log[p][i - 1] = Event("unlink", "ok")
           /\ pc[p] \in {"unlink", "reload"} => Ok(p, "remove")
           /\ (\E i \in DOMAIN log[p] :
                  log[p][i].call \in {"stop", "remove"} /\ log[p][i].code # "ok")
              => /\ ~Called(p, "unlink") /\ ~Called(p, "reload")
                 /\ pc[p] \notin {"unlink", "reload"}

\* a Remove of a running, routed deployment went through all five steps
C23_Witness ==
    \E p \in Procs :
        /\ Done(p, "remove")
        /\ Len(log[p]) = 5
        /\ \A i \in 1..5 : RemoveRank(log[p][i].call) = i /\ log[p][i].code = "ok"
        /\ ~HasConfig(subdomain[p]) /\ ContainersOf(subdomain[p]) = {}

\* C24: a Deploy whose config write (the mkdir or the writeFile) failed after
\* its container was started ends with an error, the container it started is
\* running, and there is no s.conf.
C24_WriteFailureLeavesNoConfig ==
    \A p \in Procs :
        (Done(p, "deploy") /\ Ok(p, "start") /\ ret[p].cause \in {"mkdir", "write"})
        => /\ ret[p].status = "deploy_error"
           /\ \E c \in ContainersOf(subdomain[p]) : c.Id = containerId[p] /\ c.Running
           /\ ~HasConfig(subdomain[p])

\* C25: a successful List has, for every container that a successful Deploy(s)
\* created and that is still present, an entry with subdomain s whose hostPort
\* is the host port bound to that container.
C25_ListReportsBoundPort ==
    \A p \in Procs :
        (Done(p, "list") /\ Succeeded(p))
        => \A s \in Subdomains :
              lastCall[s] = "deploy_ok"
              => \A c \in ContainersOf(s) :
                    \E e \in ret[p].list :
                        e.subdomain = s /\ e.hostPort = c.PortBindings.HostPort

\* the earlier deployments whose container is gone
Removed == {i \in 1..(nextId - 1) : ContainersOf(Earlier(i)) = {}}

\* C26: an allocation answers from the containers present at its call: when the
\* listing succeeded and a container that held a port of the range has been
\* removed, the allocation succeeds with a port no present container binds,
\* and when exactly one of the k containers filling a range of k ports has been
\* removed, it succeeds with the port that container held.
C26_FreedPortReused ==
    \A p \in Procs :
        (Done(p, "alloc") /\ Ok(p, "list") /\ Removed # {})
        => /\ Succeeded(p)
           /\ ret[p].hostPort \in {DeployMinPort + i - 1 : i \in Removed}
           /\ ret[p].hostPort \notin BoundPorts(range[p][1], range[p][2])

\* three deployments filled a range of three ports, one that held neither the
\* lowest port nor a random candidate was removed, and the allocation has
\* returned its port
C26_Witness ==
    \E p \in Procs :
        /\ Done(p, "alloc") /\ Ok(p, "list") /\ Succeeded(p)
        /\ range[p] = <<DeployMinPort, DeployMinPort + 2>>
        /\ Cardinality(containers) = 2
        /\ \E i \in 2..3 :
              /\ Removed = {i}
              /\ ret[p].hostPort = DeployMinPort + i - 1
              /\ ret[p].hostPort \notin Candidates(range[p][1], range[p][2])

\* the ports of request p's range that no container binds
FreePorts(p) == (range[p][1]..range[p][2]) \ BoundPorts(range[p][1], range[p][2])

\* C27: the allocator's loop makes at most maxAttempts probes; a probe that
\* returns returns an unused port; when all maxAttempts probes drew a used port
\* and a port of the range is free, the call returns the lowest free port; what
\* the loop returns is what findAvailablePort is computed to return; and every
\* call of the allocator ends.
C27_AllocatorTerminates ==
    /\ [](\A p \in Procs :
            /\ attempt[p] <= maxAttempts
            /\ (Done(p, "alloc") /\ Ok(p, "list"))
               => /\ Returns(ret[p].hostPort)
                        \in findAvailablePort("ok", ListContainers, range[p][1], range[p][2])
                  /\ attempt[p] < maxAttempts => ret[p].hostPort \in FreePorts(p)
                  /\ (attempt[p] = maxAttempts /\ FreePorts(p) # {})
                     => /\ Succeeded(p)
                        /\ ret[p].hostPort \in FreePorts(p)
                        /\ \A q \in FreePorts(p) : ret[p].hostPort <= q)
    /\ \A p \in Procs : (pc[p] \in {"a_list", "a_probe"}) ~> (pc[p] = "done")

\* all but one port of a three-port range are in use, every one of the
\* maxAttempts probes drew a used port, and the scan returned the free port
C27_Witness ==
    \E p \in Procs :
        /\ Done(p, "alloc") /\ Ok(p, "list") /\ Succeeded(p)
        /\ attempt[p] = maxAttempts
        /\ range[p][2] - range[p][1] = 2
        /\ FreePorts(p) = {ret[p].hostPort}

\* C28: a Deploy(s) that failed at the pull, the create or the start, on a
\* subdomain whose last Deploy had succeeded, does not end with s.conf present
\* and container-s absent.
C28_FailedRedeployKeepsRoute ==
    \A p \in Procs :
        (/\ Done(p, "deploy")
         /\ ret[p].cause \in {"pull", "create", "start"}
         /\ lastCall[subdomain[p]] = "deploy_ok")
        => ~(HasConfig(subdomain[p]) /\ ContainersOf(subdomain[p]) = {})

\* C29: when two Deploy calls for one subdomain s that overlapped have both
\* ended, no external call of either having failed for a reason of its own, at
\* most one container named container-s exists, and when one exists and s.conf
\* exists, s.conf routes to the host port that container binds.
C29_OverlappingDeploysAgree ==
    \A p, q \in Procs :
        (/\ p # q
         /\ Done(p, "deploy") /\ Done(q, "deploy")
         /\ ~Faulted(p) /\ ~Faulted(q)
         /\ subdomain[p] = subdomain[q]
         /\ MatchesPattern(subdomain[p]))
        => /\ Cardinality(ContainersOf(subdomain[p])) <= 1
           /\ \A c \in ContainersOf(subdomain[p]) :
                 HasConfig(subdomain[p])
                 => RoutesTo(files[ConfFileName(subdomain[p])], c.PortBindings.HostPort)

\* C30: a Remove that ended with an error has not removed container-s.
C30_RemoveAllOrNothing ==
    \A p \in Procs :
        (Done(p, "remove") /\ ~Succeeded(p)) => ~Ok(p, "remove")

====
